---- MODULE Spec2Model ----
(***************************************************************************)
(* Model of eric-py: the version registry (eric/versioning.py), the home   *)
(* resolver (eric/loader.py) and the session facade EricClient             *)
(* (eric/facade.py).                                                       *)
(*                                                                         *)
(* Text is modelled as a sequence of one-character strings, a path as the  *)
(* sequence of its components below the root, an optional value as a       *)
(* record [some, val].  The engine is an environment: every return code    *)
(* of an engine call is chosen nondeterministically from Codes.            *)
(***************************************************************************)
EXTENDS Integers, Sequences, FiniteSets, TLC

VARIABLES
    path,                   \* SpecDetect: the argument of detect_eric_version
    detected,               \* SpecDetect: [done, result] of detect_eric_version
    arg_home,               \* constructor argument eric_home
    env_home,               \* environment value ERIC_HOME
    eric_version,           \* constructor argument eric_version
    expected_env,           \* environment value ERIC_EXPECTED_VERSION
    policy,                 \* environment value ERIC_VERSION_POLICY (before .lower())
    constructed,            \* "no" | "ok" | "raised": outcome of EricClient.__init__
    eric_home,              \* self.eric_home
    detected_eric_version,  \* self.detected_eric_version
    version_key,            \* the local version_key of __init__
    version_config,         \* self.version_config
    initialized,            \* self._initialized
    op,                     \* the last operation invoked and its arguments
    calls,                  \* the engine (api) calls the last operation made, in order
    tx,                     \* the arguments of the last EricBearbeiteVorgang call
    outcome,                \* how the last operation ended: return or raised error
    result,                 \* the EricResult the last operation returned
    prev,                   \* op, calls and outcome of the operation before the last
    last_ok,                \* history: the last init/shutdown call that returned success
    block                   \* SpecWith: where the `with` statement on the session stands

vars == <<path, detected, arg_home, env_home, eric_version, expected_env, policy,
          constructed, eric_home, detected_eric_version, version_key,
          version_config, initialized, op, calls, tx, outcome, result, prev,
          last_ok, block>>

ctorVars == <<arg_home, env_home, eric_version, expected_env, policy,
              constructed, eric_home, detected_eric_version, version_key,
              version_config>>

opVars == <<initialized, op, calls, tx, outcome, result, prev, last_ok, block>>

detectVars == <<path, detected>>

----------------------------------------------------------------------------
(* Optional values *)

NoneStr == [some |-> FALSE, val |-> <<>>]

NoneInt == [some |-> FALSE, val |-> 0]

Some(v) == [some |-> TRUE, val |-> v]

\* Python truthiness of an Optional[str]: None and "" are both falsy.
Truthy(o) == o.some /\ o.val # <<>>

----------------------------------------------------------------------------
(* Bounds *)

\* deepest path (number of components) given to detect_eric_version
MaxDepth == 3

\* engine return codes range over 0..MaxCode
MaxCode == 2

\* transfer handle values range over 0..MaxHandle
MaxHandle == 1

\* the body of a `with` block invokes at most MaxBody operations
MaxBody == 2

----------------------------------------------------------------------------
(* eric/versioning.py *)

V41620 == <<"4", "1", ".", "6", ".", "2", ".", "0">>

V99 == <<"9", ".", "9", ".", "9", ".", "9">>

V1234 == <<"1", ".", "2", ".", "3", ".", "4">>

SUPPORTED_ERIC_VERSIONS == <<V41620>>

DEFAULT_ERIC_VERSION == SUPPORTED_ERIC_VERSIONS[1]

EricVersionConfig(v, druck, crypto) ==
    [eric_version |-> v, druck_param_version |-> druck, crypto_param_version |-> crypto]

\* mutant of VERSION_CONFIGS: the entry was copied from another release and
\* its eric_version left as it was
VERSION_CONFIGS_stale == [v \in {V41620} |-> EricVersionConfig(V99, 4, 3)]

\* a dict: the domain is the set of keys
VERSION_CONFIGS == [v \in {V41620} |-> EricVersionConfig(V41620, 4, 3)]

is_supported_version(version) ==
    \E i \in 1..Len(SUPPORTED_ERIC_VERSIONS) : SUPPORTED_ERIC_VERSIONS[i] = version

Digits == {"0", "1", "2", "3", "4", "5", "6", "7", "8", "9"}

\* \d+ at position i of s, greedy: the index of the last digit of the run
\* starting at i, or i-1 when s[i] is no digit.
RECURSIVE DigitRunEnd(_, _)
DigitRunEnd(s, i) ==
    IF i <= Len(s) /\ s[i] \in Digits THEN DigitRunEnd(s, i + 1) ELSE i - 1

\* Match k groups \d+ separated by \. starting at position i: the index of
\* the last matched character, or 0 when there is no match at i.  A shorter
\* digit run never helps (the character after it is a digit, not a dot), so
\* the backtracking of the regex engine finds nothing the greedy run misses.
RECURSIVE MatchGroups(_, _, _)
MatchGroups(s, i, k) ==
    LET e == DigitRunEnd(s, i) IN
    IF e < i THEN 0
    ELSE IF k = 1 THEN e
    ELSE IF e + 1 <= Len(s) /\ s[e + 1] = "." THEN MatchGroups(s, e + 2, k - 1)
    ELSE 0

\* pattern.search(name): the match at the leftmost position that has one.
RECURSIVE PatternSearchFrom(_, _)
PatternSearchFrom(s, i) ==
    IF i > Len(s) THEN NoneStr
    ELSE LET e == MatchGroups(s, i, 4) IN
         IF e # 0 THEN Some(SubSeq(s, i, e)) ELSE PatternSearchFrom(s, i + 1)

PatternSearch(s) == PatternSearchFrom(s, 1)

DotDot == <<".", ".">>

\* Path.resolve() on an absolute path without symbolic links: a ".."
\* component removes the component before it (the root is its own parent).
RECURSIVE ResolveFrom(_, _)
ResolveFrom(done, rest) ==
    IF rest = <<>> THEN done
    ELSE IF Head(rest) = DotDot
         THEN ResolveFrom(IF done = <<>> THEN <<>> ELSE SubSeq(done, 1, Len(done) - 1),
                          Tail(rest))
         ELSE ResolveFrom(Append(done, Head(rest)), Tail(rest))

Resolve(p) == ResolveFrom(<<>>, p)


\* mutant of ScanUp: scans from the root towards the leaf
RECURSIVE ScanDown(_)
ScanDown(current) ==
    IF current = <<>> THEN NoneStr
    ELSE LET match == PatternSearch(Head(current)) IN
         IF match.some THEN match ELSE ScanDown(Tail(current))

\* The while loop: current.name is the last component; current.parent drops
\* it; the loop stops at the root (no component left).
RECURSIVE ScanUp(_)
ScanUp(current) ==
    IF current = <<>> THEN NoneStr
    ELSE LET match == PatternSearch(current[Len(current)]) IN
         IF match.some THEN match
         ELSE ScanUp(SubSeq(current, 1, Len(current) - 1))

detect_eric_version(home) == ScanUp(Resolve(home))

----------------------------------------------------------------------------
(* Paths *)

NOpt == <<"o", "p", "t">>

NEric == <<"e", "r", "i", "c">>

NLinux == <<"L", "i", "n", "u", "x", "-", "x", "8", "6", "_", "6", "4">>

NEricV == <<"E", "R", "i", "C", "-", "4", "1", ".", "6", ".", "2", ".", "0">>

\* the component names a path is built from: with and without a version,
\* near misses (three groups, doubled dot, trailing dot, a letter inside),
\* more than four groups, two versions in one name, and "..".
PathNames ==
    { NOpt, NEric, NLinux, NEricV, V41620, V99, DotDot,
      <<"1", ".", "2", ".", "3">>,
      <<"1", ".", "2", ".", "3", ".">>,
      <<"1", ".", ".", "2", ".", "3", ".", "4">>,
      <<"1", ".", "2", ".", "3", ".", "4", ".", "5">>,
      <<"1", ".", "2", ".", "3", ".", "x", "4", ".", "5", ".", "6", ".", "7">>,
      <<"v", "9", ".", "9", ".", "9", ".", "9", "-", "1", ".", "2", ".", "3", ".", "4">> }

RECURSIVE PathsUpTo(_)
PathsUpTo(n) ==
    IF n = 0 THEN { <<>> }
    ELSE LET shorter == PathsUpTo(n - 1) IN
         shorter \cup { Append(p, c) : p \in shorter, c \in PathNames }

Paths == PathsUpTo(MaxDepth)

----------------------------------------------------------------------------
(* Values of the variables a specification does not use *)

\* was_initialized is self._initialized when the operation was invoked
NoOp == [name |-> "none", xml_ok |-> TRUE, pdf |-> FALSE, transfer |-> NoneInt,
         mkdir_ok |-> TRUE, was_initialized |-> FALSE]

NoOutcome == [kind |-> "none", code |-> 0]

NoResult == [some |-> FALSE, code |-> 0, transfer_handle |-> NoneInt]

\* transfer is the holder handed to the engine, left what the engine left in it
NoTx == [some |-> FALSE, flags |-> {}, print |-> FALSE, preview |-> FALSE,
         crypto |-> FALSE, transfer |-> NoneInt, left |-> NoneInt]

NoPrev == [name |-> "none", calls |-> <<>>, outcome |-> NoOutcome]

NoConfig == [some |-> FALSE, val |-> EricVersionConfig(<<>>, 0, 0)]

\* no `with` statement: pos is "out" before it, "body" inside the block,
\* "left" after __exit__, "failed" when __enter__ raised; ops counts the
\* operations of the body, closed tells that the body called close(),
\* raised that the body ended by raising
NoBlock == [pos |-> "out", ops |-> 0, closed |-> FALSE, raised |-> FALSE]

OpIdle ==
    /\ block = NoBlock
    /\ initialized = FALSE
    /\ op = NoOp
    /\ calls = <<>>
    /\ tx = NoTx
    /\ outcome = NoOutcome
    /\ result = NoResult
    /\ prev = NoPrev
    /\ last_ok = "none"

CtorIdle ==
    /\ arg_home = NoneStr
    /\ env_home = NoneStr
    /\ eric_version = NoneStr
    /\ expected_env = NoneStr
    /\ policy = "warn"
    /\ constructed = "no"
    /\ eric_home = NoneStr
    /\ detected_eric_version = NoneStr
    /\ version_key = NoneStr
    /\ version_config = NoConfig

DetectIdle ==
    /\ path = <<>>
    /\ detected = [done |-> FALSE, result |-> NoneStr]

----------------------------------------------------------------------------
(* eric/loader.py *)

\* the working directory of the process: what Path("").resolve() yields
Cwd == <<NOpt, NEric>>

\* _resolve_home(eric_home): both arguments are Optional[str]; the empty
\* string is modelled by Some(<<>>).  Path(None) raises TypeError.
resolve_home(home, env) ==
    IF ~home.some /\ ~env.some
    THEN [kind |-> "ConfigurationError", val |-> <<>>]
    ELSE LET base == IF Truthy(home) THEN home ELSE env IN
         IF ~base.some THEN [kind |-> "TypeError", val |-> <<>>]
         ELSE IF base.val = <<>> THEN [kind |-> "ok", val |-> Resolve(Cwd)]
         ELSE [kind |-> "ok", val |-> Resolve(base.val)]

\* eric_plugin_path() as the facade calls it: without an argument
eric_plugin_path(env) == resolve_home(NoneStr, env)

----------------------------------------------------------------------------
(* eric/facade.py: EricClient.__init__ *)

PolicyUnset == "<unset>"

\* str.lower() on the policy values of the model
Lower(p) ==
    CASE p = "STRICT" -> "strict"
      [] p = "Warn" -> "warn"
      [] OTHER -> p

\* os.environ.get("ERIC_VERSION_POLICY", "warn").lower()
EffectivePolicy(p) == IF p = PolicyUnset THEN "warn" ELSE Lower(p)


\* mutant of handle_mismatch: a warning is raised like a strict mismatch
handle_mismatch_warnRaises(pol) == pol \in {"strict", "warn"}

\* _handle_mismatch(msg): TRUE when it raises EricLibraryLoadError
handle_mismatch(pol) == pol = "strict"


\* mutant of ChooseVersionKey: the detected version is not taken into account
ChooseVersionKey_ignoreDetected(ev, det) ==
    IF Truthy(ev) THEN ev.val
    ELSE DEFAULT_ERIC_VERSION

\* mutant of ChooseVersionKey: the detected version wins over the explicit one
ChooseVersionKey_detectedFirst(ev, det) ==
    IF Truthy(det) THEN det.val
    ELSE IF Truthy(ev) THEN ev.val
    ELSE DEFAULT_ERIC_VERSION

\* eric_version or detected_version or DEFAULT_ERIC_VERSION
ChooseVersionKey(ev, det) ==
    IF Truthy(ev) THEN ev.val
    ELSE IF Truthy(det) THEN det.val
    ELSE DEFAULT_ERIC_VERSION

\* if expected_env and version_key != expected_env
ExpectedMismatch(key, ex) == Truthy(ex) /\ key # ex.val

\* if detected_version and detected_version != version_key
DetectedMismatch(key, det) == Truthy(det) /\ det.val # key


\* mutant of UnsupportedMismatch: the membership check is missing
UnsupportedMismatch_missing(key) == FALSE

\* if version_key not in SUPPORTED_ERIC_VERSIONS
UnsupportedMismatch(key) == ~is_supported_version(key)

\* mutant of ConfigGet: an unknown identifier gets a configuration made up for
\* it instead of the default's
ConfigGet_madeUp(key) ==
    IF key \in DOMAIN VERSION_CONFIGS THEN VERSION_CONFIGS[key]
    ELSE EricVersionConfig(key, 4, 3)

\* VERSION_CONFIGS.get(version_key, VERSION_CONFIGS[DEFAULT_ERIC_VERSION])
ConfigGet(key) ==
    IF key \in DOMAIN VERSION_CONFIGS THEN VERSION_CONFIGS[key]
    ELSE VERSION_CONFIGS[DEFAULT_ERIC_VERSION]

ConfigurationError == [kind |-> "ConfigurationError", code |-> 0]

Returned == [kind |-> "return", code |-> 0]

\* The constructor as a function of its arguments and the environment: the
\* fields it sets and how it ends.  EricLibraryLoadError is the only error
\* class of the loader, the spec's ConfigurationError.
EricClientNew(ah, eh, ev, ex, pol) ==
    LET home == IF Truthy(ah) THEN [kind |-> "ok", val |-> ah.val]
                ELSE eric_plugin_path(eh)
        failed == [constructed |-> "raised", outcome |-> ConfigurationError,
                   eric_home |-> NoneStr, detected_eric_version |-> NoneStr,
                   version_key |-> NoneStr, version_config |-> NoConfig]
    IN
    IF home.kind # "ok" THEN failed
    ELSE
      LET det == detect_eric_version(home.val)
          key == ChooseVersionKey(ev, det)
          p == EffectivePolicy(pol)
          mismatch == \/ ExpectedMismatch(key, ex)
                      \/ DetectedMismatch(key, det)
                      \/ UnsupportedMismatch(key)
          seen == [failed EXCEPT !.eric_home = Some(home.val),
                                 !.detected_eric_version = det,
                                 !.version_key = Some(key)]
      IN
      IF mismatch /\ handle_mismatch(p) THEN seen
      ELSE [seen EXCEPT !.constructed = "ok", !.outcome = Returned,
                        !.version_config = Some(ConfigGet(key))]

HomeVersioned == <<NOpt, NEricV, NLinux>>

HomePlain == <<NOpt, NEric, NLinux>>

HomeOther == <<NOpt, V99, NLinux>>

HomeEnv == <<NOpt, NEric, V41620, NLinux>>

HomeArgs == { NoneStr, Some(<<>>), Some(HomeVersioned), Some(HomePlain), Some(HomeOther) }

HomeEnvs == { NoneStr, Some(<<>>), Some(HomeEnv) }

VersionArgs == { NoneStr, Some(<<>>), Some(V41620), Some(V99) }

ExpectedEnvs == { NoneStr, Some(<<>>), Some(V41620), Some(V1234) }

PolicyEnvs == { PolicyUnset, "strict", "STRICT", "warn", "Warn", "ignore", "" }

(* SpecNew: the constructor applied to every combination of its inputs *)

InitNew ==
    /\ arg_home \in HomeArgs
    /\ env_home \in HomeEnvs
    /\ eric_version \in VersionArgs
    /\ expected_env \in ExpectedEnvs
    /\ policy \in PolicyEnvs
    /\ constructed = "no"
    /\ eric_home = NoneStr
    /\ detected_eric_version = NoneStr
    /\ version_key = NoneStr
    /\ version_config = NoConfig
    /\ OpIdle
    /\ DetectIdle

New ==
    /\ constructed = "no"
    /\ LET r == EricClientNew(arg_home, env_home, eric_version, expected_env, policy) IN
       /\ constructed' = r.constructed
       /\ eric_home' = r.eric_home
       /\ detected_eric_version' = r.detected_eric_version
       /\ version_key' = r.version_key
       /\ version_config' = r.version_config
       /\ outcome' = r.outcome
    /\ op' = [NoOp EXCEPT !.name = "__init__"]
    /\ calls' = <<>>
    /\ UNCHANGED <<arg_home, env_home, eric_version, expected_env, policy,
                   initialized, tx, result, prev, last_ok, block, detectVars>>

NextNew == New

SpecNew == InitNew /\ [][NextNew]_vars

----------------------------------------------------------------------------
(* SpecResolve: _resolve_home applied to every explicit home and ERIC_HOME, *)
(* as load_ericapi, load_erictoolkit and eric_plugin_path hand them on      *)

ResolvePaths ==
    { HomeVersioned, HomePlain, HomeOther, HomeEnv, <<NEric>>,
      <<NOpt, DotDot, NEric>>, <<NOpt, NEric, DotDot, DotDot, NLinux>>,
      <<DotDot, NOpt>> }

ResolveArgs == { NoneStr, Some(<<>>) } \cup { Some(p) : p \in ResolvePaths }

InitResolve ==
    /\ arg_home \in ResolveArgs
    /\ env_home \in ResolveArgs
    /\ eric_version = NoneStr
    /\ expected_env = NoneStr
    /\ policy = "warn"
    /\ constructed = "no"
    /\ eric_home = NoneStr
    /\ detected_eric_version = NoneStr
    /\ version_key = NoneStr
    /\ version_config = NoConfig
    /\ OpIdle
    /\ DetectIdle

ResolveHome ==
    /\ op.name = "none"
    /\ LET r == resolve_home(arg_home, env_home) IN
       /\ eric_home' = IF r.kind = "ok" THEN Some(r.val) ELSE NoneStr
       /\ outcome' = IF r.kind = "ok" THEN Returned ELSE [kind |-> r.kind, code |-> 0]
    /\ op' = [NoOp EXCEPT !.name = "_resolve_home"]
    /\ calls' = <<>>
    /\ UNCHANGED <<arg_home, env_home, eric_version, expected_env, policy,
                   constructed, detected_eric_version, version_key, version_config,
                   initialized, tx, result, prev, last_ok, block, detectVars>>

NextResolve == ResolveHome

SpecResolve == InitResolve /\ [][NextResolve]_vars

\* the path a text names: the empty text names the working directory
PathOf(text) == IF text = <<>> THEN Cwd ELSE text

\* C11: resolving the installation root fails with ConfigurationError when
\* neither an explicit home nor the environment value is given; otherwise it
\* yields the explicit home when one is given (not None, not empty), else the
\* environment value; no library is loaded and no engine call made before.
C11_ResolveHome ==
    op.name = "_resolve_home" =>
        /\ calls = <<>>
        /\ IF ~arg_home.some /\ ~env_home.some
           THEN outcome = ConfigurationError
           ELSE /\ outcome = Returned
                /\ eric_home.some
                /\ Truthy(arg_home) => eric_home.val = Resolve(arg_home.val)
                /\ ~Truthy(arg_home) => eric_home.val = Resolve(PathOf(env_home.val))

----------------------------------------------------------------------------
(* Properties of the constructor (SpecNew) *)

StrictPolicy == policy \in {"strict", "STRICT"}

\* warn is also the policy when the environment sets none
WarnPolicy == policy \in {"warn", "Warn", PolicyUnset}

\* an identifier (or a home) is given: not None and not the empty string
Given(o) == o.some /\ o.val # <<>>

\* neither the argument nor the environment names an installation root
NoHome == ~Given(arg_home) /\ ~env_home.some

\* the three mismatch conditions, on the inputs and the fields of the session
ExplicitVsExpected ==
    Given(eric_version) /\ Given(expected_env) /\ eric_version.val # expected_env.val

DetectedVsChosen ==
    /\ detected_eric_version.some
    /\ version_key.some
    /\ detected_eric_version.val # version_key.val

ChosenNotSupported ==
    version_key.some /\ version_key.val \notin {V41620}

\* C6: under the strict policy each of the three mismatch conditions makes
\* the constructor raise ConfigurationError, with no engine call made.
C6_StrictRaises ==
    (constructed # "no" /\ StrictPolicy
        /\ (ExplicitVsExpected \/ DetectedVsChosen \/ ChosenNotSupported)) =>
        /\ constructed = "raised"
        /\ outcome.kind = "ConfigurationError"
        /\ calls = <<>>
        /\ ~initialized

\* strict, and the only mismatch is that the chosen identifier is unsupported
C6_Witness ==
    /\ constructed = "raised"
    /\ StrictPolicy
    /\ ChosenNotSupported
    /\ ~ExplicitVsExpected
    /\ ~DetectedVsChosen

C6_WitnessDetected ==
    constructed = "raised" /\ StrictPolicy /\ DetectedVsChosen /\ ~ChosenNotSupported

C6_WitnessExpected ==
    constructed = "raised" /\ StrictPolicy /\ ExplicitVsExpected /\ ~ChosenNotSupported

\* the chosen identifier, from the inputs
Chosen ==
    IF Given(eric_version) THEN eric_version.val
    ELSE IF detected_eric_version.some THEN detected_eric_version.val
    ELSE V41620

C8_ChosenIdentifier ==
    (constructed # "no" /\ ~NoHome) =>
        /\ detected_eric_version = detect_eric_version(eric_home.val)
        /\ version_key.some
        /\ Given(eric_version) => version_key.val = eric_version.val
        /\ (~Given(eric_version) /\ detected_eric_version.some) =>
              version_key.val = detected_eric_version.val
        /\ (~Given(eric_version) /\ ~detected_eric_version.some) =>
              version_key.val = V41620

\* an explicit identifier chosen over a different detected one
C8_Witness ==
    /\ constructed = "ok"
    /\ Given(eric_version)
    /\ detected_eric_version.some
    /\ detected_eric_version.val # eric_version.val
    /\ version_key = eric_version

C8_WitnessDetected ==
    constructed = "ok" /\ ~Given(eric_version) /\ version_key = detected_eric_version
        /\ detected_eric_version.some

C8_WitnessDefault ==
    constructed = "ok" /\ ~Given(eric_version) /\ ~detected_eric_version.some
        /\ version_key = Some(V41620)

\* C22: without an explicit version identifier the detected-vs-chosen check
\* reports no mismatch, for every installation root, expected identifier and
\* policy; so under the strict policy, with neither an explicit nor an
\* expected identifier, a session with an installation root fails to
\* construct exactly when the chosen identifier is not supported.
C22_NoDetectedMismatch ==
    (constructed # "no" /\ ~Given(eric_version)) =>
        /\ ~DetectedVsChosen
        /\ ~DetectedMismatch(Chosen, detected_eric_version)
        /\ (StrictPolicy /\ ~Given(expected_env) /\ ~NoHome) =>
              /\ constructed = "raised" <=> ChosenNotSupported
              /\ constructed = "raised" => outcome.kind = "ConfigurationError"

\* strict, no explicit and no expected identifier, and the identifier
\* detected from the installation root is not supported
C22_Witness ==
    /\ constructed = "raised"
    /\ StrictPolicy
    /\ ~Given(eric_version)
    /\ ~Given(expected_env)
    /\ detected_eric_version.some
    /\ version_key = detected_eric_version
    /\ ChosenNotSupported

\* strict, nothing explicit or expected, a supported version detected
C22_WitnessConstructed ==
    /\ constructed = "ok"
    /\ StrictPolicy
    /\ ~Given(eric_version)
    /\ ~Given(expected_env)
    /\ detected_eric_version.some

SupportedSet == { SUPPORTED_ERIC_VERSIONS[i] : i \in 1..Len(SUPPORTED_ERIC_VERSIONS) }

\* C12: the supported set is non-empty, the default identifier is in it, and
\* every supported identifier has one configuration, whose eric_version is
\* that identifier; so a session constructed for a supported identifier
\* carries a configuration that names it.
C12_RegistryWellFormed ==
    /\ Len(SUPPORTED_ERIC_VERSIONS) >= 1
    /\ DEFAULT_ERIC_VERSION \in SupportedSet
    /\ Cardinality(SupportedSet) = Len(SUPPORTED_ERIC_VERSIONS)
    /\ \A v \in SupportedSet :
          /\ v \in DOMAIN VERSION_CONFIGS
          /\ VERSION_CONFIGS[v].eric_version = v
    /\ (constructed = "ok" /\ version_key.val \in SupportedSet) =>
          version_config.val.eric_version = version_key.val

\* a session constructed for the default identifier, nothing given or detected
C12_Witness ==
    /\ constructed = "ok"
    /\ ~Given(eric_version)
    /\ ~detected_eric_version.some
    /\ version_key.val \in SupportedSet
    /\ version_config.some

\* C13: the active configuration of a constructed session is the registry's
\* entry for the chosen identifier when there is one, and the default
\* identifier's configuration when there is none.
C13_ConfigFallback ==
    constructed = "ok" =>
        /\ version_config.some
        /\ version_key.val \in DOMAIN VERSION_CONFIGS =>
              version_config.val = VERSION_CONFIGS[version_key.val]
        /\ version_key.val \notin DOMAIN VERSION_CONFIGS =>
              /\ version_config.val = VERSION_CONFIGS[DEFAULT_ERIC_VERSION]
              /\ version_config.val.eric_version # version_key.val

\* a session constructed for an identifier the registry has no entry for
C13_Witness ==
    /\ constructed = "ok"
    /\ version_key = Some(V99)
    /\ version_config = Some(VERSION_CONFIGS[DEFAULT_ERIC_VERSION])

----------------------------------------------------------------------------
(* eric/errors.py and eric/api.py, as the facade uses them *)

Codes == 0..MaxCode

Handles == 0..MaxHandle

\* one api call: its name, its argument where the model needs one (the code
\* looked up by get_error_text, the buffer of create/read/free_buffer:
\* 1 = response_buffer, 2 = server_buffer) and the code the engine returned
Call(fn, arg, rc) == [fn |-> fn, arg |-> arg, rc |-> rc]

\* check_eric_result(rc, message): returns for 0, raises EricError otherwise
check_eric_result(rc) ==
    IF rc = 0 THEN [kind |-> "ok", code |-> 0]
    ELSE [kind |-> "EngineError", code |-> rc]

\* api.get_error_text(rc): a lookup in the engine, never raises
get_error_text(rc) == Call("get_error_text", rc, 0)

create_buffer(b) == Call("create_buffer", b, 0)

read_buffer(b) == Call("read_buffer", b, 0)

free_buffer(b) == Call("free_buffer", b, 0)

----------------------------------------------------------------------------
(* eric/facade.py: the operations of EricClient *)

\* what an operation does: the api calls it makes, how it ends, the result
\* it returns, the arguments it gave to EricBearbeiteVorgang, and the value
\* of self._initialized when it ends
Effect(cs, out, res, t, init) ==
    [calls |-> cs, outcome |-> out, result |-> res, tx |-> t, initialized |-> init]

OSError == [kind |-> "OSError", code |-> 0]

UnicodeEncodeError == [kind |-> "UnicodeEncodeError", code |-> 0]


\* mutant of initialize: the flag is set before the return code is checked
initialize_flagFirst(init, mkdir_ok, rc) ==
    IF ~mkdir_ok THEN Effect(<<>>, [kind |-> "OSError", code |-> 0], NoResult, NoTx, init)
    ELSE LET cs == <<Call("init_eric", 0, rc), get_error_text(rc)>>
             chk == check_eric_result(rc)
         IN IF chk.kind # "ok" THEN Effect(cs, chk, NoResult, NoTx, TRUE)
            ELSE Effect(cs, [kind |-> "return", code |-> 0], NoResult, NoTx, TRUE)

\* initialize(): mkdir of the log directory, init_eric, check, set the flag
initialize(init, mkdir_ok, rc) ==
    IF ~mkdir_ok THEN Effect(<<>>, OSError, NoResult, NoTx, init)
    ELSE LET cs == <<Call("init_eric", 0, rc), get_error_text(rc)>>
             chk == check_eric_result(rc)
         IN IF chk.kind # "ok" THEN Effect(cs, chk, NoResult, NoTx, init)
            ELSE Effect(cs, Returned, NoResult, NoTx, TRUE)


\* mutant of close: the flag is cleared before the return code is checked
close_flagFirst(init, rc) ==
    IF ~init THEN Effect(<<>>, [kind |-> "return", code |-> 0], NoResult, NoTx, init)
    ELSE LET cs == <<Call("shutdown_eric", 0, rc), get_error_text(rc)>>
             chk == check_eric_result(rc)
         IN IF chk.kind # "ok" THEN Effect(cs, chk, NoResult, NoTx, FALSE)
            ELSE Effect(cs, [kind |-> "return", code |-> 0], NoResult, NoTx, FALSE)

\* mutant of close: the guard on self._initialized is missing
close_noGuard(init, rc) ==
    LET cs == <<Call("shutdown_eric", 0, rc), get_error_text(rc)>>
        chk == check_eric_result(rc)
    IN IF chk.kind # "ok" THEN Effect(cs, chk, NoResult, NoTx, init)
       ELSE Effect(cs, [kind |-> "return", code |-> 0], NoResult, NoTx, FALSE)

\* mutant of close: the return code of shutdown_eric is not checked
close_unchecked(init, rc) ==
    IF ~init THEN Effect(<<>>, [kind |-> "return", code |-> 0], NoResult, NoTx, init)
    ELSE Effect(<<Call("shutdown_eric", 0, rc), get_error_text(rc)>>,
                [kind |-> "return", code |-> 0], NoResult, NoTx, FALSE)

\* close(): nothing when not initialized, else shutdown_eric, check, clear
close(init, rc) ==
    IF ~init THEN Effect(<<>>, Returned, NoResult, NoTx, init)
    ELSE LET cs == <<Call("shutdown_eric", 0, rc), get_error_text(rc)>>
             chk == check_eric_result(rc)
         IN IF chk.kind # "ok" THEN Effect(cs, chk, NoResult, NoTx, init)
            ELSE Effect(cs, Returned, NoResult, NoTx, FALSE)

\* _build_print_params: None without a pdf path, else a structure with
\* vorschau = 1 exactly when preview
build_print_params(pdf, preview) == [some |-> pdf, preview |-> pdf /\ preview]

\* EricTransferHandle(transfer_handle or 0): a c_uint32.  Every handle of the
\* model lies in 0..MaxHandle, far inside the 32 bits, where the conversion
\* keeps the value.
EricTransferHandle(v) == IF v = 0 THEN 0 ELSE v


\* mutant of process: no finally, the buffers are freed on the success path only
process_noFinally(init, xml_ok, flags, print_params, crypto, transfer, rc, written) ==
    IF ~xml_ok THEN Effect(<<>>, [kind |-> "UnicodeEncodeError", code |-> 0],
                           NoResult, NoTx, init)
    ELSE
      LET allocs == <<create_buffer(1), create_buffer(2)>>
          holder == IF transfer.some THEN Some(EricTransferHandle(transfer.val))
                    ELSE NoneInt
          t == [some |-> TRUE, flags |-> flags, print |-> print_params.some,
                preview |-> print_params.preview, crypto |-> crypto,
                transfer |-> holder,
                left |-> IF holder.some THEN Some(written) ELSE NoneInt]
          body == <<Call("EricBearbeiteVorgang", 0, rc), get_error_text(rc)>>
          chk == check_eric_result(rc)
          reads == <<read_buffer(1), read_buffer(2)>>
          frees == <<free_buffer(1), free_buffer(2)>>
          res == [some |-> TRUE, code |-> rc,
                  transfer_handle |-> IF holder.some THEN Some(written) ELSE NoneInt]
      IN IF chk.kind # "ok"
         THEN Effect(allocs \o body, chk, NoResult, t, init)
         ELSE Effect(allocs \o body \o reads \o frees,
                     [kind |-> "return", code |-> 0], res, t, init)

\* _process: encode, two buffers, the transaction, check, read, free.
\* rc is the code EricBearbeiteVorgang returns and written the value the
\* engine leaves in the transfer holder.
process(init, xml_ok, flags, print_params, crypto, transfer, rc, written) ==
    IF ~xml_ok THEN Effect(<<>>, UnicodeEncodeError, NoResult, NoTx, init)
    ELSE
      LET allocs == <<create_buffer(1), create_buffer(2)>>
          holder == IF transfer.some THEN Some(EricTransferHandle(transfer.val))
                    ELSE NoneInt
          t == [some |-> TRUE, flags |-> flags, print |-> print_params.some,
                preview |-> print_params.preview, crypto |-> crypto,
                transfer |-> holder,
                left |-> IF holder.some THEN Some(written) ELSE NoneInt]
          body == <<Call("EricBearbeiteVorgang", 0, rc), get_error_text(rc)>>
          chk == check_eric_result(rc)
          reads == <<read_buffer(1), read_buffer(2)>>
          frees == <<free_buffer(1), free_buffer(2)>>
          res == [some |-> TRUE, code |-> rc,
                  transfer_handle |-> IF holder.some THEN Some(written) ELSE NoneInt]
      IN IF chk.kind # "ok"
         THEN Effect(allocs \o body \o frees, chk, NoResult, t, init)
         ELSE Effect(allocs \o body \o reads \o frees, Returned, res, t, init)

\* mutant of validate_xml: the print flag is set whether or not a pdf path
\* was given
validate_xml_alwaysPrint(init, xml_ok, pdf, rc) ==
    process(init, xml_ok, {"ERIC_VALIDIERE", "ERIC_DRUCKE"},
            build_print_params(pdf, TRUE), FALSE, NoneInt, rc, 0)

\* mutant of validate_xml: refuses to run on a session that is not initialized
validate_xml_guarded(init, xml_ok, pdf, rc) ==
    IF ~init THEN Effect(<<>>, [kind |-> "RuntimeError", code |-> 0], NoResult, NoTx, init)
    ELSE process(init, xml_ok,
                 {"ERIC_VALIDIERE"} \cup (IF pdf THEN {"ERIC_DRUCKE"} ELSE {}),
                 build_print_params(pdf, TRUE), FALSE, NoneInt, rc, 0)

\* validate_xml: flags, preview print parameters, no crypto, no transfer
validate_xml(init, xml_ok, pdf, rc) ==
    LET print_params_struct == build_print_params(pdf, TRUE)
        flags == {"ERIC_VALIDIERE"}
                    \cup (IF print_params_struct.some THEN {"ERIC_DRUCKE"} ELSE {})
    IN process(init, xml_ok, flags, print_params_struct, FALSE, NoneInt, rc, 0)


\* mutant of _load_certificate: a failed acquisition is tried a second time
load_certificate_retry(rc) ==
    [calls |-> IF rc = 0
               THEN <<Call("EricGetHandleToCertificate", 0, rc), get_error_text(rc)>>
               ELSE <<Call("EricGetHandleToCertificate", 0, rc),
                      Call("EricGetHandleToCertificate", 0, rc), get_error_text(rc)>>,
     outcome |-> check_eric_result(rc)]

\* mutant of _load_certificate: the return code is not checked
load_certificate_unchecked(rc) ==
    [calls |-> <<Call("EricGetHandleToCertificate", 0, rc), get_error_text(rc)>>,
     outcome |-> [kind |-> "ok", code |-> 0]]

\* _load_certificate: EricGetHandleToCertificate, then the check
load_certificate(rc) ==
    [calls |-> <<Call("EricGetHandleToCertificate", 0, rc), get_error_text(rc)>>,
     outcome |-> check_eric_result(rc)]


\* mutant of send_xml: the code of the handle release is checked in the
\* finally block, so a failing release raises over the error in flight
send_xml_checkedRelease(init, xml_ok, pdf, transfer, certRc, rc, written, closeRc) ==
    LET print_params_struct == build_print_params(pdf, FALSE)
        flags == {"ERIC_VALIDIERE", "ERIC_SENDE"}
                    \cup (IF print_params_struct.some THEN {"ERIC_DRUCKE"} ELSE {})
        cert == load_certificate(certRc)
    IN IF cert.outcome.kind # "ok"
       THEN Effect(cert.calls, cert.outcome, NoResult, NoTx, init)
       ELSE LET p == process(init, xml_ok, flags, print_params_struct, TRUE,
                             transfer, rc, written)
                cs == cert.calls \o p.calls
                        \o <<Call("EricCloseHandleToCertificate", 0, closeRc)>>
            IN IF closeRc # 0
               THEN Effect(cs, check_eric_result(closeRc), NoResult, p.tx, init)
               ELSE [p EXCEPT !.calls = cs]

\* mutant of send_xml: the caller's transfer handle is not handed on
send_xml_dropTransfer(init, xml_ok, pdf, transfer, certRc, rc, written, closeRc) ==
    LET print_params_struct == build_print_params(pdf, FALSE)
        flags == {"ERIC_VALIDIERE", "ERIC_SENDE"}
                    \cup (IF print_params_struct.some THEN {"ERIC_DRUCKE"} ELSE {})
        cert == load_certificate(certRc)
    IN IF cert.outcome.kind # "ok"
       THEN Effect(cert.calls, cert.outcome, NoResult, NoTx, init)
       ELSE LET p == process(init, xml_ok, flags, print_params_struct, TRUE,
                             NoneInt, rc, written)
            IN [p EXCEPT !.calls = cert.calls \o p.calls
                            \o <<Call("EricCloseHandleToCertificate", 0, closeRc)>>]

\* mutant of send_xml: the handle is released before the transaction is
\* processed
send_xml_releaseEarly(init, xml_ok, pdf, transfer, certRc, rc, written, closeRc) ==
    LET print_params_struct == build_print_params(pdf, FALSE)
        flags == {"ERIC_VALIDIERE", "ERIC_SENDE"}
                    \cup (IF print_params_struct.some THEN {"ERIC_DRUCKE"} ELSE {})
        cert == load_certificate(certRc)
    IN IF cert.outcome.kind # "ok"
       THEN Effect(cert.calls, cert.outcome, NoResult, NoTx, init)
       ELSE LET p == process(init, xml_ok, flags, print_params_struct, TRUE,
                             transfer, rc, written)
            IN [p EXCEPT !.calls = cert.calls
                            \o <<Call("EricCloseHandleToCertificate", 0, closeRc)>>
                            \o p.calls]

\* mutant of send_xml: no finally, the handle is released on the success path only
send_xml_noFinally(init, xml_ok, pdf, transfer, certRc, rc, written, closeRc) ==
    LET print_params_struct == build_print_params(pdf, FALSE)
        flags == {"ERIC_VALIDIERE", "ERIC_SENDE"}
                    \cup (IF print_params_struct.some THEN {"ERIC_DRUCKE"} ELSE {})
        cert == load_certificate(certRc)
    IN IF cert.outcome.kind # "ok"
       THEN Effect(cert.calls, cert.outcome, NoResult, NoTx, init)
       ELSE LET p == process(init, xml_ok, flags, print_params_struct, TRUE,
                             transfer, rc, written)
            IN IF p.outcome.kind # "return"
               THEN [p EXCEPT !.calls = cert.calls \o p.calls]
               ELSE [p EXCEPT !.calls = cert.calls \o p.calls
                            \o <<Call("EricCloseHandleToCertificate", 0, closeRc)>>]

\* send_xml: certificate, then try: _process finally: close the handle.
\* certRc, rc and closeRc are the codes of the three engine calls; the code
\* of EricCloseHandleToCertificate is not looked at.
send_xml(init, xml_ok, pdf, transfer, certRc, rc, written, closeRc) ==
    LET print_params_struct == build_print_params(pdf, FALSE)
        flags == {"ERIC_VALIDIERE", "ERIC_SENDE"}
                    \cup (IF print_params_struct.some THEN {"ERIC_DRUCKE"} ELSE {})
        cert == load_certificate(certRc)
    IN IF cert.outcome.kind # "ok"
       THEN Effect(cert.calls, cert.outcome, NoResult, NoTx, init)
       ELSE LET p == process(init, xml_ok, flags, print_params_struct, TRUE,
                             transfer, rc, written)
            IN [p EXCEPT !.calls = cert.calls \o p.calls
                            \o <<Call("EricCloseHandleToCertificate", 0, closeRc)>>]

\* the engine lifecycle call (init or shutdown) of cs that returned success
\* last, or before when cs has none
LastLifecycle(cs, before) ==
    LET ok == { i \in DOMAIN cs :
                  cs[i].fn \in {"init_eric", "shutdown_eric"} /\ cs[i].rc = 0 }
    IN IF ok = {} THEN before
       ELSE LET last == CHOOSE i \in ok : \A j \in ok : j <= i
            IN IF cs[last].fn = "init_eric" THEN "init" ELSE "shutdown"

\* the operation o has run with effect e
Run(o, e) ==
    /\ prev' = [name |-> op.name, calls |-> calls, outcome |-> outcome]
    /\ last_ok' = LastLifecycle(e.calls, last_ok)
    /\ op' = [o EXCEPT !.was_initialized = initialized]
    /\ calls' = e.calls
    /\ outcome' = e.outcome
    /\ result' = e.result
    /\ tx' = e.tx
    /\ initialized' = e.initialized
    /\ UNCHANGED <<ctorVars, detectVars>>

\* an operation invoked by the caller, outside a `with` block or as one of
\* the at most MaxBody operations of its body
Apply(o, e) ==
    /\ block.pos \in {"out", "body"}
    /\ block.pos = "body" => block.ops < MaxBody
    /\ Run(o, e)
    /\ block' = IF block.pos = "body"
                THEN [block EXCEPT !.ops = @ + 1,
                                   !.closed = @ \/ o.name = "close"]
                ELSE block

CallInitialize ==
    \E mkdir_ok \in BOOLEAN :
    \E rc \in (IF mkdir_ok THEN Codes ELSE {0}) :
        Apply([NoOp EXCEPT !.name = "initialize", !.mkdir_ok = mkdir_ok],
              initialize(initialized, mkdir_ok, rc))

CallClose ==
    \E rc \in (IF initialized THEN Codes ELSE {0}) :
        Apply([NoOp EXCEPT !.name = "close"], close(initialized, rc))

\* The engine's answers are drawn only for the calls the operation reaches:
\* a call that is not made returns nothing to choose.
CallValidateXml ==
    \E xml_ok \in BOOLEAN, pdf \in BOOLEAN :
    \E rc \in (IF xml_ok THEN Codes ELSE {0}) :
        Apply([NoOp EXCEPT !.name = "validate_xml", !.xml_ok = xml_ok, !.pdf = pdf],
              validate_xml(initialized, xml_ok, pdf, rc))

TransferArgs == { NoneInt } \cup { Some(h) : h \in Handles }

CallSendXml ==
    \E xml_ok \in BOOLEAN, pdf \in BOOLEAN, transfer \in TransferArgs, certRc \in Codes :
    \E rc \in (IF certRc = 0 /\ xml_ok THEN Codes ELSE {0}),
       closeRc \in (IF certRc = 0 THEN Codes ELSE {0}) :
    \E written \in (IF certRc = 0 /\ xml_ok /\ rc = 0 /\ transfer.some
                    THEN Handles ELSE {0}) :
        Apply([NoOp EXCEPT !.name = "send_xml", !.xml_ok = xml_ok, !.pdf = pdf,
                           !.transfer = transfer],
              send_xml(initialized, xml_ok, pdf, transfer, certRc, rc, written, closeRc))

\* the sessions the operations run on: constructed without raising
SessionInputs ==
    { <<Some(HomeVersioned), NoneStr, NoneStr, NoneStr, PolicyUnset>>,
      <<NoneStr, Some(HomeEnv), Some(V99), NoneStr, "warn">> }

Init ==
    /\ \E i \in SessionInputs :
          LET r == EricClientNew(i[1], i[2], i[3], i[4], i[5]) IN
          /\ arg_home = i[1]
          /\ env_home = i[2]
          /\ eric_version = i[3]
          /\ expected_env = i[4]
          /\ policy = i[5]
          /\ constructed = r.constructed
          /\ eric_home = r.eric_home
          /\ detected_eric_version = r.detected_eric_version
          /\ version_key = r.version_key
          /\ version_config = r.version_config
    /\ constructed = "ok"
    /\ OpIdle
    /\ DetectIdle

Next ==
    \/ CallInitialize
    \/ CallClose
    \/ CallValidateXml
    \/ CallSendXml

Spec == Init /\ [][Next]_vars

----------------------------------------------------------------------------
(* SpecWith: the session used as a context manager,                        *)
(*     with client: <body>                                                 *)
(* __enter__, then the operations of the body, then __exit__               *)

\* __enter__: self.initialize(); return self
enter(init, mkdir_ok, rc) == initialize(init, mkdir_ok, rc)

\* mutant of exit: the session is closed only when the body did not raise
exit_unlessRaised(init, exc, rc) ==
    IF exc THEN Effect(<<>>, Returned, NoResult, NoTx, init)
    ELSE close(init, rc)

\* __exit__(exc_type, exc_val, exc_tb): self.close(); exc tells whether the
\* body raised, which __exit__ does not look at
exit(init, exc, rc) == close(init, rc)

\* the with statement calls __enter__; the body runs only when it returns
Enter ==
    /\ block.pos = "out"
    /\ \E mkdir_ok \in BOOLEAN :
       \E rc \in (IF mkdir_ok THEN Codes ELSE {0}) :
          LET e == enter(initialized, mkdir_ok, rc) IN
          /\ Run([NoOp EXCEPT !.name = "__enter__", !.mkdir_ok = mkdir_ok], e)
          /\ block' = [block EXCEPT !.pos = IF e.outcome.kind = "return"
                                            THEN "body" ELSE "failed"]

\* an operation of the body
Body ==
    /\ block.pos = "body"
    /\ Next

\* the body ends, normally or by raising, and the with statement calls
\* __exit__
Exit ==
    /\ block.pos = "body"
    /\ \E exc \in BOOLEAN :
       \E rc \in (IF initialized THEN Codes ELSE {0}) :
          /\ Run([NoOp EXCEPT !.name = "__exit__"], exit(initialized, exc, rc))
          /\ block' = [block EXCEPT !.pos = "left", !.raised = exc]

NextWith ==
    \/ Enter
    \/ Body
    \/ Exit

SpecWith == Init /\ [][NextWith]_vars

----------------------------------------------------------------------------
(* Properties of the operations (Spec) *)

\* the number of calls of fn in the sequence cs
Count(cs, fn) == Cardinality({ i \in DOMAIN cs : cs[i].fn = fn })

\* the positions of the calls of fn in cs
Positions(cs, fn) == { i \in DOMAIN cs : cs[i].fn = fn }

AcquisitionSucceeded ==
    \E i \in DOMAIN calls :
        calls[i].fn = "EricGetHandleToCertificate" /\ calls[i].rc = 0

AcquisitionFailed ==
    \E i \in DOMAIN calls :
        calls[i].fn = "EricGetHandleToCertificate" /\ calls[i].rc # 0

\* C1: in send, whenever the certificate acquisition succeeds, the handle is
\* released exactly once, after the acquisition and as the last call before
\* send returns or raises, on every exit path.
C1_HandleReleasedOnce ==
    (op.name = "send_xml" /\ AcquisitionSucceeded) =>
        /\ Count(calls, "EricCloseHandleToCertificate") = 1
        /\ calls[Len(calls)].fn = "EricCloseHandleToCertificate"
        /\ \A i \in Positions(calls, "EricGetHandleToCertificate") : i < Len(calls)

\* send after a successful acquisition, ended by a failing transaction call
C1_Witness ==
    /\ op.name = "send_xml"
    /\ AcquisitionSucceeded
    /\ outcome.kind = "EngineError"
    /\ Count(calls, "EricBearbeiteVorgang") = 1

\* send after a successful acquisition, ended by a step that is no engine call
C1_WitnessStepFails ==
    /\ op.name = "send_xml"
    /\ AcquisitionSucceeded
    /\ outcome.kind = "UnicodeEncodeError"

\* send after a successful acquisition that returns its result
C1_WitnessSuccess ==
    /\ op.name = "send_xml"
    /\ AcquisitionSucceeded
    /\ outcome.kind = "return"

\* C2: in send, when the certificate acquisition returns a non-zero code, an
\* EngineError is raised and neither the transaction call nor the
\* handle-release call is made.
C2_FailedAcquisition ==
    (op.name = "send_xml" /\ AcquisitionFailed) =>
        /\ outcome.kind = "EngineError"
        /\ Count(calls, "EricBearbeiteVorgang") = 0
        /\ Count(calls, "EricCloseHandleToCertificate") = 0

C2_Witness ==
    /\ op.name = "send_xml"
    /\ AcquisitionFailed
    /\ op.xml_ok

Transactions == {"validate_xml", "send_xml"}

\* C3 as claimed: every invocation of validate and of send allocates exactly
\* two buffers and frees exactly two.
C3_Original ==
    op.name \in Transactions =>
        /\ Count(calls, "create_buffer") = 2
        /\ Count(calls, "free_buffer") = 2

\* each of the two buffers is allocated once before the transaction call and
\* freed once after it
TwoBuffersAllocatedAndFreed ==
    /\ Count(calls, "create_buffer") = 2
    /\ Count(calls, "free_buffer") = 2
    /\ \A b \in {1, 2} :
          \E i, j \in DOMAIN calls :
              /\ calls[i] = create_buffer(b)
              /\ calls[j] = free_buffer(b)
              /\ \A k \in Positions(calls, "EricBearbeiteVorgang") : i < k /\ k < j

\* C3 amended: an invocation of validate or send that reaches the
\* transaction call allocates exactly two buffers and frees exactly two,
\* whether that call succeeds or fails; an invocation that ends before it
\* (the certificate acquisition of send fails, the text cannot be encoded)
\* allocates and frees none.
C3_BufferLifecycle ==
    op.name \in Transactions =>
        IF Count(calls, "EricBearbeiteVorgang") = 1
        THEN TwoBuffersAllocatedAndFreed
        ELSE /\ Count(calls, "EricBearbeiteVorgang") = 0
             /\ Count(calls, "create_buffer") = 0
             /\ Count(calls, "free_buffer") = 0
             /\ \/ op.name = "send_xml" /\ AcquisitionFailed
                \/ ~op.xml_ok

\* a transaction call that fails, with both buffers allocated before it
C3_Witness ==
    /\ op.name \in Transactions
    /\ \E i \in DOMAIN calls :
          calls[i].fn = "EricBearbeiteVorgang" /\ calls[i].rc # 0
    /\ outcome.kind = "EngineError"
    /\ Count(calls, "create_buffer") = 2

C4_WitnessFailed ==
    /\ prev.name = "close"
    /\ prev.outcome.kind = "EngineError"
    /\ op.name = "close"

\* C5: initialize() on an Uninitialized session makes it Initialized only if
\* init returned the success code; otherwise the error propagates and the
\* session stays Uninitialized.
C5_InitializeOutcome ==
    (op.name = "initialize" /\ ~op.was_initialized) =>
        LET succeeded == \E i \in DOMAIN calls :
                            calls[i].fn = "init_eric" /\ calls[i].rc = 0
        IN /\ initialized <=> succeeded
           /\ succeeded <=> (outcome.kind = "return")
           /\ ~succeeded => outcome.kind \in {"EngineError", "OSError"}
           /\ Count(calls, "init_eric") <= 1

\* initialize() on an Uninitialized session whose init call returns non-zero
C5_Witness ==
    /\ op.name = "initialize"
    /\ ~op.was_initialized
    /\ \E i \in DOMAIN calls : calls[i].fn = "init_eric" /\ calls[i].rc # 0
    /\ ~initialized

\* initialize() that fails before the init call, and one that succeeds
C5_WitnessMkdir ==
    op.name = "initialize" /\ ~op.was_initialized /\ ~op.mkdir_ok

C5_WitnessSuccess ==
    op.name = "initialize" /\ ~op.was_initialized /\ initialized

\* the engine calls whose return code the facade hands to check_eric_result
CheckedCalls ==
    {"init_eric", "shutdown_eric", "EricGetHandleToCertificate", "EricBearbeiteVorgang"}

FailedCalls ==
    { i \in DOMAIN calls : calls[i].fn \in CheckedCalls /\ calls[i].rc # 0 }

\* C10: no EngineError is raised while every checked engine call returns 0;
\* a non-zero code of a checked call raises EngineError carrying exactly that
\* code, in initialize, close, validate and send.
C10_ErrorCarriesCode ==
    op.name \in {"initialize", "close", "validate_xml", "send_xml"} =>
        /\ FailedCalls = {} => outcome.kind # "EngineError"
        /\ FailedCalls # {} =>
              /\ outcome.kind = "EngineError"
              /\ Cardinality(FailedCalls) = 1
              /\ \A i \in FailedCalls :
                    /\ outcome.code = calls[i].rc
                    /\ i < Len(calls) /\ calls[i + 1] = get_error_text(outcome.code)

\* a close() whose shutdown call returns the largest code
C10_Witness ==
    /\ op.name = "close"
    /\ outcome = [kind |-> "EngineError", code |-> MaxCode]
    /\ Count(calls, "shutdown_eric") = 1

TransactionCall == "EricBearbeiteVorgang"

\* the transaction call of the last operation returned a non-zero code
TransactionFailed ==
    \E i \in DOMAIN calls : calls[i].fn = TransactionCall /\ calls[i].rc # 0

\* C14 as claimed: in validate and send both output buffers are read after
\* the transaction call returns, whatever code it returned.
C14_BuffersReadAfterCall ==
    (op.name \in Transactions /\ Count(calls, TransactionCall) = 1) =>
        \A b \in {1, 2} :
            \E j \in DOMAIN calls :
                /\ calls[j] = read_buffer(b)
                /\ \A k \in Positions(calls, TransactionCall) : k < j

C16_NoRetry ==
    /\ op.name \in Transactions => Count(calls, TransactionCall) <= 1
    /\ op.name = "send_xml" => Count(calls, "EricGetHandleToCertificate") = 1
    /\ op.name = "validate_xml" => Count(calls, "EricGetHandleToCertificate") = 0
    /\ op.name = "initialize" =>
          Count(calls, "init_eric") <= 1 /\ Count(calls, "shutdown_eric") = 0
    /\ op.name = "close" =>
          Count(calls, "shutdown_eric") <= 1 /\ Count(calls, "init_eric") = 0

\* a send whose certificate acquisition fails with the largest code
C16_Witness ==
    /\ op.name = "send_xml"
    /\ outcome = [kind |-> "EngineError", code |-> MaxCode]
    /\ AcquisitionFailed

\* C17: the flags are {validate} for validate and {validate, send} for
\* send, with print exactly when a pdf path was given; validate passes no
\* crypto parameters and no transfer handle, send always passes crypto
\* parameters.
C17_FlagsAndParams ==
    (op.name \in Transactions /\ Count(calls, TransactionCall) = 1) =>
        /\ tx.some
        /\ tx.print <=> op.pdf
        /\ "ERIC_DRUCKE" \in tx.flags <=> op.pdf
        /\ "ERIC_VALIDIERE" \in tx.flags
        /\ tx.flags \subseteq {"ERIC_VALIDIERE", "ERIC_SENDE", "ERIC_DRUCKE"}
        /\ op.name = "validate_xml" =>
              /\ "ERIC_SENDE" \notin tx.flags
              /\ ~tx.crypto
              /\ ~tx.transfer.some
              /\ tx.print => tx.preview
        /\ op.name = "send_xml" =>
              /\ "ERIC_SENDE" \in tx.flags
              /\ tx.crypto
              /\ AcquisitionSucceeded
              /\ ~tx.preview

\* a validate without a pdf path that reached the transaction call
C17_Witness ==
    /\ op.name = "validate_xml"
    /\ ~op.pdf
    /\ tx.some
    /\ tx.flags = {"ERIC_VALIDIERE"}

C17_WitnessSendPrint ==
    /\ op.name = "send_xml"
    /\ op.pdf
    /\ tx.flags = {"ERIC_VALIDIERE", "ERIC_SENDE", "ERIC_DRUCKE"}

\* C18: in a successful send the Result's transfer handle is the value the
\* engine left in the handle the caller supplied, and is absent (and no
\* handle is given to the engine) when the caller supplied none; the Result
\* of validate has no transfer handle.
C18_TransferHandle ==
    outcome.kind = "return" =>
        /\ op.name = "send_xml" =>
              /\ result.some
              /\ IF op.transfer.some
                 THEN /\ tx.transfer = op.transfer
                      /\ tx.left.some
                      /\ result.transfer_handle = tx.left
                 ELSE /\ ~tx.transfer.some
                      /\ result.transfer_handle = NoneInt
        /\ op.name = "validate_xml" =>
              /\ result.some
              /\ ~tx.transfer.some
              /\ result.transfer_handle = NoneInt

\* a successful send in which the engine changed the caller's handle
C18_Witness ==
    /\ op.name = "send_xml"
    /\ outcome.kind = "return"
    /\ op.transfer.some
    /\ result.transfer_handle.some
    /\ result.transfer_handle # op.transfer

\* C19: the session is Initialized exactly when the last engine lifecycle
\* call that returned success was init; a close() whose shutdown call fails
\* leaves it Initialized.
C19_LifecycleState ==
    /\ initialized <=> (last_ok = "init")
    /\ (op.name = "close" /\ outcome.kind = "EngineError") => initialized

\* a close() whose shutdown call failed, on a session still Initialized
C19_Witness ==
    /\ op.name = "close"
    /\ outcome.kind = "EngineError"
    /\ initialized
    /\ last_ok = "init"

\* a session shut down after it was initialized
C19_WitnessShutdown ==
    ~initialized /\ last_ok = "shutdown"

\* C20: validate and send change neither the lifecycle state nor the active
\* version configuration, however they end, and they check nothing: on an
\* Uninitialized session they still make their engine calls.
C20_TransactionsFrame ==
    [][op'.name \in Transactions =>
          /\ initialized' = initialized
          /\ version_config' = version_config
          /\ last_ok' = last_ok
          /\ (~initialized /\ op'.name = "validate_xml" /\ op'.xml_ok) =>
                Count(calls', TransactionCall) = 1
          /\ (~initialized /\ op'.name = "send_xml") =>
                Count(calls', "EricGetHandleToCertificate") = 1
          /\ (~initialized /\ op'.name = "send_xml" /\ op'.xml_ok
                /\ outcome'.kind = "return") =>
                Count(calls', TransactionCall) = 1]_vars

\* a validate on an Uninitialized session that made the transaction call
C20_Witness ==
    /\ op.name = "validate_xml"
    /\ ~op.was_initialized
    /\ ~initialized
    /\ Count(calls, TransactionCall) = 1
    /\ result.some

\* buffer b is live at position i of the trace: allocated before i and not
\* freed before i
BufferLive(b, i) ==
    /\ \E a \in DOMAIN calls : a < i /\ calls[a] = create_buffer(b)
    /\ \A f \in DOMAIN calls : calls[f] = free_buffer(b) => i < f

\* C21: in a send whose certificate acquisition succeeds the resources nest:
\* the handle is acquired before any buffer is allocated, the transaction
\* call is made while the handle and both buffers are live, and the handle
\* is released after every buffer that was allocated has been freed.
C21_NestedResources ==
    (op.name = "send_xml" /\ AcquisitionSucceeded) =>
        \A h \in Positions(calls, "EricGetHandleToCertificate") :
        \A r \in Positions(calls, "EricCloseHandleToCertificate") :
            /\ h < r
            /\ \A a \in Positions(calls, "create_buffer") :
                  /\ h < a
                  /\ \E f \in DOMAIN calls :
                        a < f /\ f < r /\ calls[f] = free_buffer(calls[a].arg)
            /\ \A f \in Positions(calls, "free_buffer") : f < r
            /\ \A t \in Positions(calls, TransactionCall) :
                  /\ h < t
                  /\ t < r
                  /\ BufferLive(1, t)
                  /\ BufferLive(2, t)

\* a send that acquired the handle, allocated both buffers, made a failing
\* transaction call, freed both buffers and released the handle
C21_Witness ==
    /\ op.name = "send_xml"
    /\ AcquisitionSucceeded
    /\ TransactionFailed
    /\ Count(calls, "create_buffer") = 2
    /\ Count(calls, "free_buffer") = 2
    /\ Count(calls, "EricCloseHandleToCertificate") = 1

----------------------------------------------------------------------------
(* Properties of the context manager (SpecWith) *)

\* the shutdown calls __exit__ made (calls is its trace once the block is left)
ShutdownsOnLeaving == Count(calls, "shutdown_eric")

\* when __enter__ raised: its initialize failed, the body did not run and
\* no shutdown call was made
EntryFailed ==
    block.pos = "failed" =>
        /\ op.name = "__enter__"
        /\ outcome.kind \in {"EngineError", "OSError"}
        /\ block.ops = 0
        /\ ShutdownsOnLeaving = 0
        /\ prev.name = "none"

\* C23 as claimed: whenever the initialize on entry succeeded, exactly one
\* shutdown call is made on leaving the block, whether the body completes
\* normally or raises; when it failed, the body does not run and no
\* shutdown call is made.
C23_Original ==
    /\ block.pos = "left" => ShutdownsOnLeaving = 1
    /\ EntryFailed

\* C23: on leaving the block exactly one shutdown call is made when the
\* session is Initialized at that moment and none otherwise; after a
\* successful initialize on entry it is Initialized whenever the body did
\* not call close() itself, whether the body completes normally or raises.
\* When the initialize on entry fails the body does not run and no shutdown
\* call is made.
C23_ContextManager ==
    /\ block.pos = "body" => (block.ops = 0 => initialized)
    /\ block.pos = "left" =>
          /\ op.name = "__exit__"
          /\ ShutdownsOnLeaving = (IF op.was_initialized THEN 1 ELSE 0)
          /\ ~block.closed => ShutdownsOnLeaving = 1
    /\ EntryFailed

\* a block whose body made a failing transaction and ended by raising, left
\* with one shutdown call
C23_Witness ==
    /\ block.pos = "left"
    /\ block.raised
    /\ ~block.closed
    /\ block.ops > 0
    /\ prev.name \in Transactions
    /\ prev.outcome.kind = "EngineError"
    /\ ShutdownsOnLeaving = 1

C23_WitnessNormal ==
    block.pos = "left" /\ ~block.raised /\ ~block.closed /\ ShutdownsOnLeaving = 1

C23_WitnessEntryFailed ==
    block.pos = "failed" /\ outcome.kind = "EngineError"

\* the body closed the session itself: nothing is left to shut down
C23_WitnessClosedInBody ==
    block.pos = "left" /\ block.closed /\ ShutdownsOnLeaving = 0

----------------------------------------------------------------------------
(* SpecDetect: detect_eric_version applied to every path of Paths *)

InitDetect ==
    /\ path \in Paths
    /\ detected = [done |-> FALSE, result |-> NoneStr]
    /\ CtorIdle
    /\ OpIdle

Detect ==
    /\ ~detected.done
    /\ detected' = [done |-> TRUE, result |-> detect_eric_version(path)]
    /\ UNCHANGED <<path, ctorVars, opVars>>

NextDetect == Detect

SpecDetect == InitDetect /\ [][NextDetect]_vars

----------------------------------------------------------------------------
(* C9 *)

\* s is four non-empty groups of digits separated by three dots
IsFourGroups(s) ==
    \E a, b, c \in 1..Len(s) :
        /\ 1 < a /\ a + 1 < b /\ b + 1 < c /\ c < Len(s)
        /\ \A i \in 1..Len(s) :
              IF i \in {a, b, c} THEN s[i] = "." ELSE s[i] \in Digits

SubstringsOf(name) ==
    { SubSeq(name, i, j) : i \in 1..Len(name), j \in 1..Len(name) }

ContainsVersion(name) == \E s \in SubstringsOf(name) : IsFourGroups(s)

\* the indices of the components of the resolved path that contain a version
VersionedComponents(p) ==
    { i \in 1..Len(Resolve(p)) : ContainsVersion(Resolve(p)[i]) }

MaxOf(S) == CHOOSE m \in S : \A n \in S : n <= m

\* C9: detect returns a four-dotted-numeric-group substring of the component
\* nearest to the leaf that contains one, and none when no component of the
\* ancestry contains one.
C9_DetectNearestToLeaf ==
    detected.done =>
        IF VersionedComponents(path) = {}
        THEN detected.result = NoneStr
        ELSE /\ detected.result.some
             /\ IsFourGroups(detected.result.val)
             /\ detected.result.val \in
                    SubstringsOf(Resolve(path)[MaxOf(VersionedComponents(path))])

\* a path whose leaf has no version, with versions in two different ancestors
C9_Witness ==
    /\ detected.done
    /\ Cardinality(VersionedComponents(path)) >= 2
    /\ Len(Resolve(path)) \notin VersionedComponents(path)
    /\ Len(path) = MaxDepth
    /\ detected.result.some

\* a path without any version in its ancestry
C9_WitnessNone ==
    /\ detected.done
    /\ Len(Resolve(path)) >= 2
    /\ VersionedComponents(path) = {}

====
